---- MODULE Spec2Model ----
(***************************************************************************)
(* EarGuard (src/main.go): a polling loop that samples the output device's *)
(* peak level, averages the last SampleWindow samples, divides the master  *)
(* volume when the average exceeds the threshold and restores it after a   *)
(* quiet delay; a signal goroutine restores the volume and exits.          *)
(*                                                                         *)
(* Numbers.  float32/float64 values are modelled as exact rationals        *)
(* <<n, d>> in lowest terms (d > 0); x/0 is <<1,0>> (+Inf) or <<0,0>>      *)
(* (NaN) as in IEEE division.  float32 rounding is not modelled.           *)
(* Time.  The clock `now` counts whole seconds, the unit of RestoreDelay.  *)
(* The loop's sleeps (50 ms, 100 ms) are shorter than one unit, so a sleep *)
(* is a step of its own that takes no whole unit; the clock advances by   *)
(* the separate step TimePasses.                                           *)
(* Concurrency.  The main goroutine and the signal goroutine interleave at *)
(* the granularity of their accesses to the shared variables               *)
(* isReducedVolume and originalVolume and of their device calls.           *)
(***************************************************************************)
EXTENDS Integers, Sequences, FiniteSets, TLC

\* ------------------------------------------------------------------ bounds
\* Clock horizon: TimePasses stops at MaxTime.
MaxTime == 2
\* Device volume levels are k/MaxVol, k in 0..MaxVol.
MaxVol == 1
\* Peak levels are k/MaxPeak, k in 0..MaxPeak.
MaxPeak == 1
\* The buffer runs take sample_window from 1..MaxWindow, and the default.
MaxWindow == 3
\* The history counts consecutive failed volume writes up to MaxRetries.
MaxRetries == 1

\* -------------------------------------------------------- float arithmetic
RECURSIVE GCD(_, _)
GCD(a, b) == IF b = 0 THEN a ELSE GCD(b, a % b)

Abs(x) == IF x < 0 THEN -x ELSE x

\* The rational n/d in lowest terms, denominator positive; d = 0 gives the
\* IEEE results of a division by zero.
Norm(n, d) ==
    IF d = 0 THEN (IF n = 0 THEN <<0, 0>> ELSE <<1, 0>>)
    ELSE LET g == GCD(Abs(n), Abs(d))
             s == IF d < 0 THEN -1 ELSE 1
         IN <<(s * n) \div g, (s * d) \div g>>

Zero == Norm(0, 1)

FromInt(i) == Norm(i, 1)

\* a + b, a / b, a > b, a >= b on finite rationals.
RAdd(a, b) == Norm(a[1] * b[2] + b[1] * a[2], a[2] * b[2])

RDiv(a, b) == Norm(a[1] * b[2], a[2] * b[1])

RGt(a, b) == a[1] * b[2] > b[1] * a[2]

RGe(a, b) == a[1] * b[2] >= b[1] * a[2]

\* ------------------------------------------------------------ configuration
defaultConfig ==
    [Threshold |-> Norm(2, 5), DivisionFactor |-> Norm(4, 1), RestoreDelay |-> 3,
     Verbose |-> FALSE, SampleWindow |-> 5]

\* An optional value: <<>> when absent, <<v>> when present.
Given(opt) == Len(opt) > 0

OrElse(opt, dflt) == IF Given(opt) THEN opt[1] ELSE dflt

\* The value a flag variable holds after flag.Parse(): the command-line value
\* when the flag is given, the registered default otherwise.
flagThreshold(a) == OrElse(a.threshold, Norm(-1, 1))

flagDivision(a) == OrElse(a.division, Norm(-1, 1))

flagDelay(a) == OrElse(a.delay, -1)

flagVerbose(a) == OrElse(a.verbose, FALSE)

\* Mutant of Unmarshal: a file without sample_window gives a window of one.
UnmarshalWindowOne(fields, c) ==
    [Threshold      |-> OrElse(fields.threshold, c.Threshold),
     DivisionFactor |-> OrElse(fields.division_factor, c.DivisionFactor),
     RestoreDelay   |-> OrElse(fields.restore_delay, c.RestoreDelay),
     Verbose        |-> OrElse(fields.verbose, c.Verbose),
     SampleWindow   |-> OrElse(fields.sample_window, 1)]

\* json.Unmarshal(data, &config) on well-formed data: a field present in the
\* file overwrites the default, an absent field keeps it.
Unmarshal(fields, c) ==
    [Threshold      |-> OrElse(fields.threshold, c.Threshold),
     DivisionFactor |-> OrElse(fields.division_factor, c.DivisionFactor),
     RestoreDelay   |-> OrElse(fields.restore_delay, c.RestoreDelay),
     Verbose        |-> OrElse(fields.verbose, c.Verbose),
     SampleWindow   |-> OrElse(fields.sample_window, c.SampleWindow)]

\* loadConfig: the configuration and whether an error is returned.  A missing
\* file is created with the defaults; unreadable or syntactically invalid
\* data leaves the defaults in place and returns an error.  Data that is
\* valid JSON with a value of the wrong type for some field (status "type")
\* makes json.Unmarshal skip that field, decode the others (file.fields) and
\* return the type error: the configuration returned with the error holds
\* the decoded fields.
loadConfig(file) ==
    CASE file.status = "missing"    -> [config |-> defaultConfig, err |-> FALSE]
      [] file.status = "unreadable" -> [config |-> defaultConfig, err |-> TRUE]
      [] file.status = "syntax"     -> [config |-> defaultConfig, err |-> TRUE]
      [] file.status = "type"       -> [config |-> Unmarshal(file.fields, defaultConfig),
                                        err |-> TRUE]
      [] OTHER -> [config |-> Unmarshal(file.fields, defaultConfig), err |-> FALSE]

\* main, lines 87-96: the command-line overrides.
applyFlags(c, a) ==
    [c EXCEPT
       !.Threshold      = IF RGe(flagThreshold(a), Zero) THEN flagThreshold(a) ELSE @,
       !.DivisionFactor = IF RGe(flagDivision(a), Zero) THEN flagDivision(a) ELSE @,
       !.RestoreDelay   = IF flagDelay(a) >= 0 THEN flagDelay(a) ELSE @,
       !.Verbose        = flagVerbose(a)]

\* ------------------------------------------------------------------- inputs
NoFields ==
    [threshold |-> <<>>, division_factor |-> <<>>, restore_delay |-> <<>>,
     verbose |-> <<>>, sample_window |-> <<>>]

NoArgs == [threshold |-> <<>>, division |-> <<>>, delay |-> <<>>, verbose |-> <<>>]

Volumes == {Norm(k, MaxVol) : k \in 0..MaxVol}

Peaks == {Norm(k, MaxPeak) : k \in 0..MaxPeak}

\* The runs of the whole program start from these (file, command line) pairs.
LoopInputs ==
    { [file |-> [status |-> "ok",
                 fields |-> [threshold |-> <<Norm(1, 2)>>, division_factor |-> <<Norm(2, 1)>>,
                             restore_delay |-> <<1>>, verbose |-> <<FALSE>>,
                             sample_window |-> <<1>>]],
       args |-> NoArgs],
      [file |-> [status |-> "ok",
                 fields |-> [NoFields EXCEPT !.sample_window = <<2>>, !.verbose = <<TRUE>>]],
       args |-> [NoArgs EXCEPT !.delay = <<0>>]] }

\* The runs of the release: the first of LoopInputs, a window of one sample
\* and a delay of one second.
LiveInputs == { i \in LoopInputs : i.args = NoArgs }

\* The example file of the README (part_000, lines 32-38): no sample_window.
ExampleFile ==
    [status |-> "ok",
     fields |-> [threshold |-> <<Norm(2, 5)>>, division_factor |-> <<Norm(4, 1)>>,
                 restore_delay |-> <<3>>, verbose |-> <<FALSE>>, sample_window |-> <<>>]]

\* The runs that exercise the buffer: every window in 0..MaxWindow from the
\* file, the default window of a missing file, and the example file.
BufferInputs ==
    { [file |-> [status |-> "ok", fields |-> [NoFields EXCEPT !.sample_window = <<w>>]],
       args |-> NoArgs] : w \in 0..MaxWindow }
    \cup { [file |-> [status |-> "missing", fields |-> NoFields], args |-> NoArgs] }
    \cup { [file |-> ExampleFile, args |-> NoArgs] }

\* The runs of the threshold extreme: threshold 1 from the file for every
\* window in 1..MaxWindow, threshold 1 from the command line over a file
\* without fields, and the first of LoopInputs.
ExtremeInputs ==
    { [file |-> [status |-> "ok",
                 fields |-> [threshold |-> <<Norm(1, 1)>>, division_factor |-> <<Norm(2, 1)>>,
                             restore_delay |-> <<0>>, verbose |-> <<>>,
                             sample_window |-> <<w>>]],
       args |-> NoArgs] : w \in 1..MaxWindow }
    \cup { [file |-> [status |-> "ok", fields |-> NoFields],
            args |-> [NoArgs EXCEPT !.threshold = <<Norm(1, 1)>>, !.delay = <<0>>]] }
    \cup LiveInputs

\* The runs of the startup: files and command lines field by field.
OptOf(S) == {<<>>} \cup {<<v>> : v \in S}

\* The fields a file can hold.  A file of status "type" has a field of the
\* wrong type, which is not among the decoded ones.
ConfigFields ==
    [threshold : OptOf({Norm(1, 2)}), division_factor : OptOf({Norm(2, 1)}),
     restore_delay : OptOf({0, 1}), verbose : OptOf(BOOLEAN),
     sample_window : OptOf({-1, 0, 1, 2})]

ConfigFiles ==
    { [status |-> st, fields |-> NoFields] : st \in {"missing", "syntax"} }
    \cup { [status |-> "ok", fields |-> f] : f \in ConfigFields }
    \cup { [status |-> "type", fields |-> f] :
             f \in { g \in ConfigFields : g.threshold = <<>> \/ g.restore_delay = <<>> } }

ConfigArgs ==
    [threshold : OptOf({Norm(1, 4)}), division : OptOf({Norm(0, 1), Norm(3, 1)}),
     delay : OptOf({0, 2}), verbose : OptOf(BOOLEAN)]

ConfigInputs == { [file |-> f, args |-> a] : f \in ConfigFiles, a \in ConfigArgs }

\* -------------------------------------------------------------------- state
VARIABLES
    cfgFile,            \* the configuration file found at startup
    args,               \* the command line
    config,             \* main's config
    loadErr,            \* err returned by loadConfig
    pc,                 \* position of the main goroutine
    hpc,                \* position of the signal goroutine
    isReducedVolume, originalVolume, lastLoudTimestamp,
    peakBuffer, bufferIndex,
    averagePeak, currentVolume, newVolume,   \* locals of one loop iteration
    devVolume,          \* the endpoint's master volume scalar
    now,                \* the monotonic clock, in seconds
    recent,             \* history: the last (at most SampleWindow) samples pushed
    lastWriter,         \* history: who wrote devVolume last
    capturedVolume,     \* history: the volume read on the tick of the last successful trigger
    reducedAt,          \* history: the clock when isReducedVolume last became true
    sigReduced,         \* history: isReducedVolume when the signal was received
    shutdownCmds,       \* history: the volume commands of the signal goroutine, and whether each succeeded
    pushed,             \* history: a sample was pushed in the current iteration
    retries,            \* history: consecutive failed volume writes of the loop (up to MaxRetries)
    lastCmd             \* history: the loop's last successful volume command

vars ==
    <<cfgFile, args, config, loadErr, pc, hpc, isReducedVolume, originalVolume,
      lastLoudTimestamp, peakBuffer, bufferIndex, averagePeak, currentVolume, newVolume,
      devVolume, now, recent, lastWriter, capturedVolume, reducedAt, sigReduced,
      shutdownCmds, pushed, retries, lastCmd>>

inputVars == <<cfgFile, args>>

ctlVars == <<isReducedVolume, originalVolume, lastLoudTimestamp>>

bufVars == <<peakBuffer, bufferIndex, recent>>

localVars == <<averagePeak, currentVolume, newVolume>>

tickHist == <<pushed, retries, lastCmd>>

histVars ==
    <<lastWriter, capturedVolume, reducedAt, sigReduced, shutdownCmds, pushed, retries,
      lastCmd>>

InitWith(inputs) ==
    /\ \E i \in inputs : cfgFile = i.file /\ args = i.args
    /\ config = defaultConfig
    /\ loadErr = FALSE
    /\ pc = "load"
    /\ hpc = "none"
    /\ isReducedVolume = FALSE
    /\ originalVolume = Zero
    /\ lastLoudTimestamp = 0
    /\ peakBuffer = <<>>
    /\ bufferIndex = 0
    /\ averagePeak = Zero
    /\ currentVolume = Zero
    /\ newVolume = Zero
    /\ devVolume \in Volumes
    /\ now = 0
    /\ recent = <<>>
    /\ lastWriter = "none"
    /\ capturedVolume = Zero
    /\ reducedAt = 0
    /\ sigReduced = FALSE
    /\ shutdownCmds = <<>>
    /\ pushed = FALSE
    /\ retries = 0
    /\ lastCmd = "none"

Init == InitWith(LoopInputs)

Running == hpc # "exited" /\ pc # "panic"


Started == pc \notin {"load", "flags", "alloc"}

\* ------------------------------------------------------------------ startup
\* main, line 81: config, err := loadConfig(*configFile).
LoadConfig ==
    /\ Running /\ pc = "load"
    /\ config' = loadConfig(cfgFile).config
    /\ loadErr' = loadConfig(cfgFile).err
    /\ pc' = "flags"
    /\ UNCHANGED <<inputVars, hpc, ctlVars, bufVars, localVars, devVolume, now, histVars>>

\* main, lines 87-96.
ApplyFlags ==
    /\ Running /\ pc = "flags"
    /\ config' = applyFlags(config, args)
    /\ pc' = "alloc"
    /\ UNCHANGED <<inputVars, loadErr, hpc, ctlVars, bufVars, localVars, devVolume, now,
                   histVars>>

\* main, lines 153-171: the loop's variables, the buffer of SampleWindow zeros
\* (make panics on a negative length) and the signal goroutine.
MakeBuffer ==
    /\ Running /\ pc = "alloc"
    /\ IF config.SampleWindow < 0
         THEN /\ pc' = "panic"
              /\ UNCHANGED <<peakBuffer, hpc>>
         ELSE /\ peakBuffer' = [i \in 1..config.SampleWindow |-> Zero]
              /\ hpc' = "wait"
              /\ pc' = "peak"
    /\ UNCHANGED <<inputVars, config, loadErr, ctlVars, bufferIndex, recent, localVars,
                   devVolume, now, histVars>>

\* ---------------------------------------------------------------- the buffer
\* lines 183-186: sumPeaks accumulated over the buffer, slot by slot.
SumPeaks(buf) ==
    LET sumTo[i \in 0..Len(buf)] == IF i = 0 THEN Zero ELSE RAdd(sumTo[i - 1], buf[i])
    IN sumTo[Len(buf)]

\* lines 180-181.
push(buf, idx, p) == [buf EXCEPT ![idx + 1] = p]

\* Mutant of nextIndex: the cursor does not advance.
nextIndexStuck(idx, window) == idx

nextIndex(idx, window) == (idx + 1) % window

\* line 187.
average(buf, window) == RDiv(SumPeaks(buf), FromInt(window))

\* The last n elements of s (all of s when it is shorter).
LastN(s, n) == IF Len(s) <= n THEN s ELSE SubSeq(s, Len(s) - n + 1, Len(s))

\* -------------------------------------------------------------- the main loop
\* A new iteration declares its locals afresh.
ResetLocals ==
    /\ averagePeak' = Zero
    /\ currentVolume' = Zero
    /\ newVolume' = Zero

\* line 175, GetPeakValue succeeds; lines 180-187 push the sample and average.
\* Indexing an empty buffer panics.
GetPeakOK ==
    /\ Running /\ pc = "peak"
    /\ \E p \in Peaks :
         IF config.SampleWindow = 0
           THEN /\ pc' = "panic"
                /\ UNCHANGED <<bufVars, averagePeak, pushed>>
           ELSE /\ peakBuffer' = push(peakBuffer, bufferIndex, p)
                /\ bufferIndex' = nextIndex(bufferIndex, config.SampleWindow)
                /\ averagePeak' = average(push(peakBuffer, bufferIndex, p),
                                          config.SampleWindow)
                /\ recent' = LastN(Append(recent, p), config.SampleWindow)
                /\ pushed' = TRUE
                /\ pc' = "vol"
    /\ UNCHANGED <<inputVars, config, loadErr, hpc, ctlVars, currentVolume, newVolume,
                   devVolume, now, lastWriter, capturedVolume, reducedAt, sigReduced,
                   shutdownCmds, retries, lastCmd>>

\* lines 175-178, GetPeakValue fails.
GetPeakFail ==
    /\ Running /\ pc = "peak"
    /\ pc' = "backoff"
    /\ UNCHANGED <<inputVars, config, loadErr, hpc, ctlVars, bufVars, localVars, devVolume,
                   now, histVars>>

\* line 190, GetMasterVolumeLevelScalar succeeds.
GetVolumeOK ==
    /\ Running /\ pc = "vol"
    /\ currentVolume' = devVolume
    /\ pc' = "decide"
    /\ UNCHANGED <<inputVars, config, loadErr, hpc, ctlVars, bufVars, averagePeak, newVolume,
                   devVolume, now, histVars>>

\* lines 190-193, GetMasterVolumeLevelScalar fails.
GetVolumeFail ==
    /\ Running /\ pc = "vol"
    /\ pc' = "backoff"
    /\ ResetLocals
    /\ UNCHANGED <<inputVars, config, loadErr, hpc, ctlVars, bufVars, devVolume, now,
                   histVars>>

\* Mutant of reducedVolume: the volume is multiplied by the factor.
reducedVolumeTimes(volume, factor) == Norm(volume[1] * factor[1], volume[2] * factor[2])

\* line 203: newVolume := originalVolume / float32(config.DivisionFactor).
reducedVolume(volume, factor) == RDiv(volume, factor)

\* Mutant of Branch: the trigger does not look at isReducedVolume.
BranchNoStateCheck(avg, threshold, reduced, elapsed, delay) ==
    IF RGt(avg, threshold) THEN "trigger"
    ELSE IF reduced /\ elapsed > delay THEN "restore"
    ELSE "none"

\* Mutant of Branch: the restore fires as soon as the delay is reached.
BranchAtDelay(avg, threshold, reduced, elapsed, delay) ==
    IF RGt(avg, threshold) /\ ~reduced THEN "trigger"
    ELSE IF RGt(avg, threshold) /\ reduced THEN "retrigger"
    ELSE IF reduced /\ elapsed >= delay THEN "restore"
    ELSE "none"

\* Mutant of Branch: an average equal to the threshold triggers.
BranchAtThreshold(avg, threshold, reduced, elapsed, delay) ==
    IF RGe(avg, threshold) /\ ~reduced THEN "trigger"
    ELSE IF RGe(avg, threshold) /\ reduced THEN "retrigger"
    ELSE IF reduced /\ elapsed > delay THEN "restore"
    ELSE "none"

\* Mutant of Branch: a quiet tick in state Reduced restores at once.
BranchHoldRestores(avg, threshold, reduced, elapsed, delay) ==
    IF RGt(avg, threshold) /\ ~reduced THEN "trigger"
    ELSE IF RGt(avg, threshold) /\ reduced THEN "retrigger"
    ELSE IF reduced THEN "restore"
    ELSE "none"

\* The branch of lines 201-224 taken.
Branch(avg, threshold, reduced, elapsed, delay) ==
    IF RGt(avg, threshold) /\ ~reduced THEN "trigger"
    ELSE IF RGt(avg, threshold) /\ reduced THEN "retrigger"
    ELSE IF reduced /\ elapsed > delay THEN "restore"
    ELSE "none"

\* lines 201-203, 213-215: the conditions, and the assignments that precede
\* any device call.
Decide ==
    /\ Running /\ pc = "decide"
    /\ LET b == Branch(averagePeak, config.Threshold, isReducedVolume,
                       now - lastLoudTimestamp, config.RestoreDelay)
       IN CASE b = "trigger" ->
                 /\ originalVolume' = currentVolume
                 /\ newVolume' = reducedVolume(originalVolume', config.DivisionFactor)
                 /\ pc' = "setReduce"
                 /\ UNCHANGED <<lastLoudTimestamp, averagePeak, currentVolume>>
            [] b = "retrigger" ->
                 /\ lastLoudTimestamp' = now
                 /\ pc' = "sleep"
                 /\ ResetLocals
                 /\ UNCHANGED originalVolume
            [] b = "restore" ->
                 /\ pc' = "setRestore"
                 /\ UNCHANGED <<originalVolume, lastLoudTimestamp, localVars>>
            [] OTHER ->
                 /\ pc' = "sleep"
                 /\ ResetLocals
                 /\ UNCHANGED <<originalVolume, lastLoudTimestamp>>
    /\ UNCHANGED <<inputVars, config, loadErr, hpc, isReducedVolume, bufVars, devVolume, now,
                   histVars>>

\* line 204, SetMasterVolumeLevelScalar(newVolume) succeeds.
SetReduceOK ==
    /\ Running /\ pc = "setReduce"
    /\ devVolume' = newVolume
    /\ lastWriter' = "trigger"
    /\ capturedVolume' = currentVolume
    /\ retries' = 0
    /\ lastCmd' = "reduce"
    /\ pc' = "markReduced"
    /\ UNCHANGED <<inputVars, config, loadErr, hpc, ctlVars, bufVars, localVars, now,
                   reducedAt, sigReduced, shutdownCmds, pushed>>

\* lines 204-208, SetMasterVolumeLevelScalar(newVolume) fails.
SetReduceFail ==
    /\ Running /\ pc = "setReduce"
    /\ retries' = IF retries < MaxRetries THEN retries + 1 ELSE retries
    /\ pc' = "backoff"
    /\ ResetLocals
    /\ UNCHANGED <<inputVars, config, loadErr, hpc, ctlVars, bufVars, devVolume, now,
                   lastWriter, capturedVolume, reducedAt, sigReduced, shutdownCmds,
                   pushed, lastCmd>>

\* Mutant of MarkReduced: the flag is not set.
MarkReducedKeepsNormal ==
    /\ Running /\ pc = "markReduced"
    /\ lastLoudTimestamp' = now
    /\ reducedAt' = now
    /\ pc' = "sleep"
    /\ ResetLocals
    /\ UNCHANGED <<inputVars, config, loadErr, hpc, isReducedVolume, originalVolume, bufVars,
                   devVolume, now, lastWriter, capturedVolume, sigReduced, shutdownCmds,
                   tickHist>>

\* lines 209-210.
MarkReduced ==
    /\ Running /\ pc = "markReduced"
    /\ isReducedVolume' = TRUE
    /\ lastLoudTimestamp' = now
    /\ reducedAt' = now
    /\ pc' = "sleep"
    /\ ResetLocals
    /\ UNCHANGED <<inputVars, config, loadErr, hpc, originalVolume, bufVars, devVolume, now,
                   lastWriter, capturedVolume, sigReduced, shutdownCmds, tickHist>>

\* Mutant of SetRestoreOK: the restore writes the volume read on this tick.
SetRestoreOKCurrent ==
    /\ Running /\ pc = "setRestore"
    /\ devVolume' = currentVolume
    /\ lastWriter' = "restore"
    /\ retries' = 0
    /\ lastCmd' = "restore"
    /\ pc' = "markNormal"
    /\ UNCHANGED <<inputVars, config, loadErr, hpc, ctlVars, bufVars, localVars, now,
                   capturedVolume, reducedAt, sigReduced, shutdownCmds, pushed>>

\* line 216, SetMasterVolumeLevelScalar(originalVolume) succeeds.
SetRestoreOK ==
    /\ Running /\ pc = "setRestore"
    /\ devVolume' = originalVolume
    /\ lastWriter' = "restore"
    /\ retries' = 0
    /\ lastCmd' = "restore"
    /\ pc' = "markNormal"
    /\ UNCHANGED <<inputVars, config, loadErr, hpc, ctlVars, bufVars, localVars, now,
                   capturedVolume, reducedAt, sigReduced, shutdownCmds, pushed>>

\* Mutant of SetRestoreFail: a failed restore clears the flag all the same.
SetRestoreFailClearsFlag ==
    /\ Running /\ pc = "setRestore"
    /\ retries' = IF retries < MaxRetries THEN retries + 1 ELSE retries
    /\ isReducedVolume' = FALSE
    /\ pc' = "backoff"
    /\ ResetLocals
    /\ UNCHANGED <<inputVars, config, loadErr, hpc, originalVolume, lastLoudTimestamp,
                   bufVars, devVolume, now, lastWriter, capturedVolume, reducedAt,
                   sigReduced, shutdownCmds, pushed, lastCmd>>

\* lines 216-220, SetMasterVolumeLevelScalar(originalVolume) fails.
SetRestoreFail ==
    /\ Running /\ pc = "setRestore"
    /\ retries' = IF retries < MaxRetries THEN retries + 1 ELSE retries
    /\ pc' = "backoff"
    /\ ResetLocals
    /\ UNCHANGED <<inputVars, config, loadErr, hpc, ctlVars, bufVars, devVolume, now,
                   lastWriter, capturedVolume, reducedAt, sigReduced, shutdownCmds,
                   pushed, lastCmd>>

\* Mutant of MarkNormal: the flag is not cleared.
MarkNormalKeepsFlag ==
    /\ Running /\ pc = "markNormal"
    /\ pc' = "sleep"
    /\ ResetLocals
    /\ UNCHANGED <<inputVars, config, loadErr, hpc, ctlVars, bufVars, devVolume, now,
                   histVars>>

\* line 221.
MarkNormal ==
    /\ Running /\ pc = "markNormal"
    /\ isReducedVolume' = FALSE
    /\ pc' = "sleep"
    /\ ResetLocals
    /\ UNCHANGED <<inputVars, config, loadErr, hpc, originalVolume, lastLoudTimestamp,
                   bufVars, devVolume, now, histVars>>

\* line 226, and the Sleep-and-continue of lines 176-177, 191-192, 206-207,
\* 218-219: back to the top of the loop.
Sleep ==
    /\ Running /\ pc \in {"sleep", "backoff"}
    /\ pc' = "peak"
    /\ pushed' = FALSE
    /\ UNCHANGED <<inputVars, config, loadErr, hpc, ctlVars, bufVars, localVars, devVolume,
                   now, lastWriter, capturedVolume, reducedAt, sigReduced, shutdownCmds,
                   retries, lastCmd>>

\* ------------------------------------------------------ the signal goroutine
\* line 164: <-signalChan returns.
SignalReceived ==
    /\ Running /\ hpc = "wait"
    /\ hpc' = "check"
    /\ sigReduced' = isReducedVolume
    /\ UNCHANGED <<inputVars, config, loadErr, pc, ctlVars, bufVars, localVars, devVolume,
                   now, lastWriter, capturedVolume, reducedAt, shutdownCmds, tickHist>>

\* line 166: if isReducedVolume.
HandlerCheck ==
    /\ Running /\ hpc = "check"
    /\ hpc' = IF isReducedVolume THEN "restore" ELSE "exit"
    /\ UNCHANGED <<inputVars, config, loadErr, pc, ctlVars, bufVars, localVars, devVolume,
                   now, histVars>>

\* line 168: SetMasterVolumeLevelScalar(originalVolume, nil) succeeds.
HandlerRestoreOK ==
    /\ Running /\ hpc = "restore"
    /\ devVolume' = originalVolume
    /\ lastWriter' = "shutdown"
    /\ shutdownCmds' = Append(shutdownCmds, [volume |-> originalVolume, ok |-> TRUE])
    /\ hpc' = "exit"
    /\ UNCHANGED <<inputVars, config, loadErr, pc, ctlVars, bufVars, localVars, now,
                   capturedVolume, reducedAt, sigReduced, tickHist>>

\* Mutant of HandlerRestoreFail: a failed restore is issued again.
HandlerRestoreFailRetries ==
    /\ Running /\ hpc = "restore"
    /\ shutdownCmds' = Append(shutdownCmds, [volume |-> originalVolume, ok |-> FALSE])
    /\ hpc' = "restore"
    /\ UNCHANGED <<inputVars, config, loadErr, pc, ctlVars, bufVars, localVars, devVolume,
                   now, lastWriter, capturedVolume, reducedAt, sigReduced, tickHist>>

\* line 168: the call fails; its result is not looked at.
HandlerRestoreFail ==
    /\ Running /\ hpc = "restore"
    /\ shutdownCmds' = Append(shutdownCmds, [volume |-> originalVolume, ok |-> FALSE])
    /\ hpc' = "exit"
    /\ UNCHANGED <<inputVars, config, loadErr, pc, ctlVars, bufVars, localVars, devVolume,
                   now, lastWriter, capturedVolume, reducedAt, sigReduced, tickHist>>

\* line 170: os.Exit(0).
HandlerExit ==
    /\ Running /\ hpc = "exit"
    /\ hpc' = "exited"
    /\ UNCHANGED <<inputVars, config, loadErr, pc, ctlVars, bufVars, localVars, devVolume,
                   now, histVars>>

\* The exit status of the process: 0 from os.Exit(0) at line 170, 2 from a
\* runtime panic, -1 while it runs.
ExitCode == IF hpc = "exited" THEN 0 ELSE IF pc = "panic" THEN 2 ELSE -1

\* ------------------------------------------------------------ the environment
\* Somebody else (the user, another program) sets the master volume.
ExternalVolumeChange ==
    /\ Running /\ Started
    /\ \E v \in Volumes \ {devVolume} : devVolume' = v
    /\ lastWriter' = "external"
    /\ UNCHANGED <<inputVars, config, loadErr, pc, hpc, ctlVars, bufVars, localVars, now,
                   capturedVolume, reducedAt, sigReduced, shutdownCmds, tickHist>>

\* The monotonic clock advances.
TimePasses ==
    /\ Running /\ Started
    /\ now < MaxTime
    /\ now' = now + 1
    /\ UNCHANGED <<inputVars, config, loadErr, pc, hpc, ctlVars, bufVars, localVars,
                   devVolume, histVars>>

Next ==
    \/ LoadConfig \/ ApplyFlags \/ MakeBuffer
    \/ GetPeakOK \/ GetPeakFail \/ GetVolumeOK \/ GetVolumeFail \/ Decide
    \/ SetReduceOK \/ SetReduceFail \/ MarkReduced
    \/ SetRestoreOK \/ SetRestoreFail \/ MarkNormal \/ Sleep
    \/ SignalReceived \/ HandlerCheck \/ HandlerRestoreOK \/ HandlerRestoreFail
    \/ HandlerExit
    \/ ExternalVolumeChange \/ TimePasses

Spec == Init /\ [][Next]_vars

\* The main goroutine.
MainLoop ==
    \/ LoadConfig \/ ApplyFlags \/ MakeBuffer
    \/ GetPeakOK \/ GetPeakFail \/ GetVolumeOK \/ GetVolumeFail \/ Decide
    \/ SetReduceOK \/ SetReduceFail \/ MarkReduced
    \/ SetRestoreOK \/ SetRestoreFail \/ MarkNormal \/ Sleep

\* The scheduling the release relies on: the main goroutine keeps running,
\* the clock keeps advancing (up to the horizon) and a device call that is
\* retried forever eventually succeeds.
Fairness ==
    /\ WF_vars(MainLoop)
    /\ WF_vars(TimePasses)
    /\ SF_vars(GetPeakOK)
    /\ SF_vars(GetVolumeOK)
    /\ SF_vars(SetRestoreOK)

\* The program while no signal arrives, under Fairness.
NextLive == MainLoop \/ ExternalVolumeChange \/ TimePasses

InitLive == InitWith(LiveInputs)

SpecLive == InitLive /\ [][NextLive]_vars /\ Fairness

\* The signal goroutine, once the signal has arrived.
SignalHandler == HandlerCheck \/ HandlerRestoreOK \/ HandlerRestoreFail \/ HandlerExit

\* The whole program; the signal goroutine is scheduled once it is runnable
\* and its device call returns.  Nothing is assumed of the main loop or of
\* the arrival of a signal.
SpecShutdown == InitLive /\ [][Next]_vars /\ WF_vars(SignalHandler)

\* The startup alone, over every file and command line of ConfigInputs.
InitConfig == InitWith(ConfigInputs)

NextConfig == LoadConfig \/ ApplyFlags \/ MakeBuffer

SpecConfig == InitConfig /\ [][NextConfig]_vars

\* The loop's reads and the buffer, over the windows of BufferInputs; every
\* volume write fails.
InitBuffer == InitWith(BufferInputs)

NextBuffer ==
    \/ LoadConfig \/ ApplyFlags \/ MakeBuffer
    \/ GetPeakOK \/ GetPeakFail \/ GetVolumeOK \/ GetVolumeFail \/ Decide
    \/ SetReduceFail \/ Sleep

SpecBuffer == InitBuffer /\ [][NextBuffer]_vars

\* The whole program over the runs of ExtremeInputs.
InitExtreme == InitWith(ExtremeInputs)

SpecExtreme == InitExtreme /\ [][Next]_vars

\* ================================================================== claims
Loud == RGt(averagePeak, config.Threshold)

\* a = b / c, by cross-multiplication.
IsQuotient(a, b, c) == a[1] * c[1] * b[2] = b[1] * c[2] * a[2]

\* C1 (Trigger).  A tick that reaches the branches in state Normal with an
\* average above the threshold takes the trigger branch; when its setVolume
\* succeeds the volume written is the volume read on that tick divided by
\* DivisionFactor, and the tick ends with isReducedVolume true.
C1_Trigger ==
    [][ /\ (pc = "decide" /\ pc' # pc /\ ~isReducedVolume /\ Loud) => pc' = "setReduce"
        /\ (pc = "setReduce" /\ pc' = "markReduced") =>
              IsQuotient(devVolume', currentVolume, config.DivisionFactor)
        /\ (pc = "markReduced" /\ pc' # pc) => (isReducedVolume' /\ pc' = "sleep") ]_vars

\* A trigger has written a divided, non-zero volume.
C1_Witness ==
    /\ pc = "markReduced" /\ lastWriter = "trigger"
    /\ RGt(currentVolume, Zero) /\ RGt(currentVolume, devVolume)

\* C2 (No double-ducking).  While isReducedVolume is true no step changes
\* originalVolume and the loop is never at the divided write; originalVolume
\* changes only in the branch step of a tick that is in state Normal.
C2_NoDoubleDucking ==
    [][ /\ isReducedVolume =>
              (originalVolume' = originalVolume /\ pc' # "setReduce" /\ pc # "setReduce")
        /\ originalVolume' # originalVolume => (~isReducedVolume /\ pc = "decide") ]_vars

\* A loud tick in state Reduced whose volume read differs from originalVolume.
C2_Witness ==
    pc = "decide" /\ isReducedVolume /\ Loud /\ currentVolume # originalVolume

\* C3 (Hysteresis hold).  Whenever the loop is about to issue the restore
\* command, the state is Reduced and more than RestoreDelay seconds have
\* passed since lastLoudTimestamp, hence since the state became Reduced.
C3_HysteresisHold ==
    pc = "setRestore" =>
        /\ isReducedVolume
        /\ now - lastLoudTimestamp > config.RestoreDelay
        /\ lastLoudTimestamp >= reducedAt
        /\ now - reducedAt > config.RestoreDelay

\* The restore command is issued at the first moment the delay allows.
C3_Witness ==
    /\ pc = "setRestore" /\ config.RestoreDelay >= 1
    /\ now - lastLoudTimestamp = config.RestoreDelay + 1

\* The clock cannot advance far enough for the delay to elapse.
HorizonReached == lastLoudTimestamp + config.RestoreDelay >= MaxTime

\* The state is Reduced, no average above the threshold is at hand, and the
\* clock can still advance past the delay.
QuietReduced == isReducedVolume /\ ~Loud /\ hpc # "exited" /\ ~HorizonReached

\* C4 (Hysteresis release).  Under Fairness the controller does not stay
\* Reduced forever through a quiet period: again and again the state is
\* Normal, or a tick's average is above the threshold (or the model's clock
\* is at its horizon).
C4_HysteresisRelease == []<>(~QuietReduced)

\* The loop has restored the volume after the delay and the state is Normal.
C4_Witness ==
    /\ pc = "sleep" /\ ~isReducedVolume /\ lastWriter = "restore"
    /\ devVolume = capturedVolume
    /\ now - lastLoudTimestamp > config.RestoreDelay

\* C5 (Timestamp refresh).  A tick in state Reduced whose window average
\* exceeds the threshold ends with lastLoudTimestamp equal to the clock of
\* that tick.
C5_TimestampRefresh ==
    [][ (isReducedVolume /\ Loud /\ pc \in {"vol", "decide"}
           /\ pc' \in {"sleep", "backoff"}) => lastLoudTimestamp' = now ]_vars

\* C6 (Restore idempotence).  A successful restore by the loop writes the
\* volume that was read on the tick of the most recent successful trigger.
C6_RestoreExact ==
    [][ (pc = "setRestore" /\ pc' = "markNormal") => devVolume' = capturedVolume ]_vars

\* A restore has been written on a tick whose volume read was neither the
\* captured volume nor the volume the trigger wrote.
C6_Witness ==
    /\ pc = "markNormal" /\ lastWriter = "restore" /\ devVolume = capturedVolume
    /\ currentVolume # capturedVolume
    /\ ~IsQuotient(currentVolume, capturedVolume, config.DivisionFactor)


\* C7 (Shutdown safety).  When the process has exited after a signal that was
\* received in state Reduced, the signal goroutine has issued exactly one
\* restore command, with the volume captured at the trigger.
C7_ShutdownRestoresOnce ==
    (hpc = "exited" /\ sigReduced) =>
        (Len(shutdownCmds) = 1 /\ shutdownCmds[1].volume = capturedVolume)

\* C8 (No stranded reduction).  When the process has exited through the
\* signal path and no write of the signal goroutine failed, the device
\* volume is not a reduced volume that a trigger wrote.
C8_NoStrandedReduction ==
    (hpc = "exited" /\ \A i \in 1..Len(shutdownCmds) : shutdownCmds[i].ok) =>
        ~(lastWriter = "trigger" /\ devVolume # capturedVolume)

\* C9 (Average correctness).  Once SampleWindow samples have been pushed, the
\* average computed on a tick is the mean of the last SampleWindow samples
\* pushed; with a window of one it is the latest sample.
C9_AverageCorrect ==
    (pc \in {"vol", "decide"} /\ Len(recent) = config.SampleWindow) =>
        /\ IsQuotient(averagePeak, SumPeaks(recent), FromInt(config.SampleWindow))
        /\ config.SampleWindow = 1 => averagePeak = recent[1]

\* The cursor has wrapped: more samples than the window holds were pushed,
\* and the window holds different samples.
C9_Witness ==
    /\ pc = "vol" /\ config.SampleWindow >= 2 /\ Len(recent) = config.SampleWindow
    /\ bufferIndex = 1
    /\ recent[1] # recent[config.SampleWindow]
    /\ RGt(averagePeak, Zero)

\* The value the configuration file gives a field: the file's value when the
\* file holds a well-typed value for the field, the default otherwise.
FileValue(field, dflt) ==
    IF cfgFile.status \in {"ok", "type"} /\ Given(cfgFile.fields[field])
    THEN cfgFile.fields[field][1] ELSE dflt

\* C10 (Configuration precedence).  Once the overrides are applied, each of
\* threshold, division_factor, restore_delay and verbose is the command-line
\* value when the flag is given and the file's value (or the default)
\* otherwise.
C10_Precedence ==
    pc \notin {"load", "flags"} =>
        /\ config.Threshold =
              OrElse(args.threshold, FileValue("threshold", defaultConfig.Threshold))
        /\ config.DivisionFactor =
              OrElse(args.division, FileValue("division_factor", defaultConfig.DivisionFactor))
        /\ config.RestoreDelay =
              OrElse(args.delay, FileValue("restore_delay", defaultConfig.RestoreDelay))
        /\ config.Verbose =
              OrElse(args.verbose, FileValue("verbose", defaultConfig.Verbose))

\* C11 (Read-failure skip).  A tick that ends because the peak read or the
\* volume read failed has pushed no sample (buffer and cursor as at the top
\* of the tick), has left isReducedVolume, originalVolume and
\* lastLoudTimestamp unchanged and has written no volume.
C11_ReadFailureSkip ==
    [][ (pc \in {"peak", "vol"} /\ pc' = "backoff") =>
            /\ ~pushed
            /\ UNCHANGED <<peakBuffer, bufferIndex, isReducedVolume, originalVolume,
                           lastLoudTimestamp, devVolume>> ]_vars

\* C12 (Write failure).  A failed setVolume of the trigger leaves the state
\* Normal; a failed setVolume of the restore leaves the state Reduced with
\* originalVolume and lastLoudTimestamp unchanged; neither writes the device.
\* The loop goes on after the failure, and a later tick that reaches the
\* branches under the same conditions attempts the same write again, however
\* many writes have failed before.
C12_WriteFailure ==
    [][ /\ (pc = "setReduce" /\ pc' = "backoff") =>
              (~isReducedVolume /\ ~isReducedVolume' /\ devVolume' = devVolume)
        /\ (pc = "setRestore" /\ pc' = "backoff") =>
              /\ isReducedVolume /\ isReducedVolume' /\ devVolume' = devVolume
              /\ UNCHANGED <<originalVolume, lastLoudTimestamp>>
        /\ (pc = "backoff" /\ pc' # pc) => pc' = "peak"
        /\ (pc = "decide" /\ pc' # pc /\ retries > 0 /\ ~isReducedVolume /\ Loud) =>
              pc' = "setReduce"
        /\ (pc = "decide" /\ pc' # pc /\ retries > 0 /\ isReducedVolume /\ ~Loud
              /\ now - lastLoudTimestamp > config.RestoreDelay) => pc' = "setRestore" ]_vars

\* The restore is attempted again after MaxRetries failed restores.
C12_Witness ==
    pc = "setRestore" /\ retries = MaxRetries /\ isReducedVolume /\ lastCmd = "reduce"

\* C13 (Threshold extreme).  With a threshold of 1 and a window of at least
\* one sample, whatever the peaks in [0,1], the state is never Reduced and no
\* volume command is attempted, by the loop or by the signal goroutine.
C13_ThresholdOne ==
    (Started /\ config.Threshold = FromInt(1) /\ config.SampleWindow >= 1) =>
        /\ ~isReducedVolume
        /\ pc \notin {"setReduce", "markReduced", "setRestore", "markNormal"}
        /\ hpc # "restore"
        /\ lastCmd = "none" /\ retries = 0 /\ shutdownCmds = <<>>
        /\ lastWriter \in {"none", "external"}

\* A tick has decided on a full window of peaks that are all 1: the average
\* equals the threshold.
C13_Witness ==
    /\ pc = "sleep" /\ config.Threshold = FromInt(1) /\ config.SampleWindow >= 2
    /\ Len(recent) = config.SampleWindow
    /\ \A i \in 1..Len(recent) : recent[i] = FromInt(1)
    /\ peakBuffer = recent

\* The tick at the branches is a Re-trigger, a Hold or an Idle tick.
NoTransitionTick ==
    IF isReducedVolume
    THEN Loud \/ now - lastLoudTimestamp <= config.RestoreDelay
    ELSE ~Loud

\* C14 (Volume commands only on transitions).  A Re-trigger, Hold or Idle
\* tick goes from the branches to the sleep without a volume command and
\* without changing isReducedVolume or originalVolume; the loop reaches a
\* setVolume call only from the trigger branch (Normal, average above the
\* threshold) or the restore branch (Reduced, average not above it, delay
\* elapsed), and no other step of the loop writes the device.
C14_CommandsOnlyOnTransitions ==
    [][ /\ (pc = "decide" /\ pc' # pc /\ NoTransitionTick) =>
              /\ pc' = "sleep"
              /\ UNCHANGED <<isReducedVolume, originalVolume, devVolume, lastCmd, retries>>
        /\ (pc' = "setReduce" /\ pc' # pc) => (pc = "decide" /\ ~isReducedVolume /\ Loud)
        /\ (pc' = "setRestore" /\ pc' # pc) =>
              /\ pc = "decide" /\ isReducedVolume /\ ~Loud
              /\ now - lastLoudTimestamp > config.RestoreDelay
        /\ (pc' # pc /\ pc \notin {"setReduce", "setRestore"}) =>
              UNCHANGED <<devVolume, lastCmd, retries>>
        /\ (pc' # pc /\ pc \in {"peak", "vol", "sleep", "backoff"}) =>
              UNCHANGED <<isReducedVolume, originalVolume>> ]_vars

\* A Hold tick has ended: the state is Reduced, the window of one sample
\* holds a quiet sample pushed on this tick, the delay has not elapsed, and
\* the device is not at originalVolume.
C14_Witness ==
    /\ pc = "sleep" /\ pushed /\ isReducedVolume /\ config.SampleWindow = 1
    /\ recent = <<Zero>>
    /\ now > lastLoudTimestamp /\ now - lastLoudTimestamp <= config.RestoreDelay
    /\ lastWriter = "trigger" /\ devVolume # originalVolume

\* The main goroutine is in the polling loop.
InLoop == Started /\ pc # "panic"

\* C15 (Buffer invariant and cold start).  In every state of the loop the
\* buffer has SampleWindow slots and the cursor is one of 0..SampleWindow-1;
\* before any push the slots are zero, and while fewer than SampleWindow
\* samples have been pushed the average is their sum divided by SampleWindow.
C15_BufferInvariant ==
    InLoop =>
        /\ Len(peakBuffer) = config.SampleWindow
        /\ bufferIndex \in 0..(config.SampleWindow - 1)
        /\ recent = <<>> => \A i \in 1..Len(peakBuffer) : peakBuffer[i] = Zero
        /\ (Len(recent) < config.SampleWindow /\ pc \in {"vol", "decide"}) =>
              IsQuotient(averagePeak, SumPeaks(recent), FromInt(config.SampleWindow))

\* C16 (Valid configuration).  Whenever the polling loop starts, the
\* configuration satisfies 0 <= threshold <= 1, divisionFactor > 0,
\* restoreDelay >= 0 and sampleWindow >= 1.
C16_ValidConfig ==
    pc = "peak" =>
        /\ RGe(config.Threshold, Zero) /\ RGe(FromInt(1), config.Threshold)
        /\ RGt(config.DivisionFactor, Zero)
        /\ config.RestoreDelay >= 0
        /\ config.SampleWindow >= 1

\* C17 (Parse error falls back to defaults).  When loadConfig has returned a
\* parse error, the program goes on to the overrides with the default
\* configuration in every field.
C17_ParseErrorDefaults ==
    (pc = "flags" /\ cfgFile.status \in {"syntax", "type"}) =>
        (loadErr /\ config = defaultConfig)

\* A configuration file was loaded and holds no sample_window.
WindowAbsent == cfgFile.status = "ok" /\ cfgFile.fields.sample_window = <<>>

\* C18 as stated (Absent sample_window).  When the loaded file has no
\* sample_window the loop runs with a window of one: the average of a tick
\* is the sample it has just read.
C18_AbsentWindowIsOne ==
    (InLoop /\ WindowAbsent) =>
        /\ config.SampleWindow = 1
        /\ pc \in {"vol", "decide"} => averagePeak = recent[Len(recent)]

\* C18, amended.  When the loaded file has no sample_window the loop runs
\* with the default window of five: the buffer has five slots and the average
\* of a tick is the sum of the (at most five) last samples divided by five.
C18_AbsentWindowIsDefault ==
    (InLoop /\ WindowAbsent) =>
        /\ config.SampleWindow = 5 /\ Len(peakBuffer) = 5
        /\ pc \in {"vol", "decide"} =>
              IsQuotient(averagePeak, SumPeaks(recent), FromInt(5))

\* Under the example file a tick has read a peak of 1 after four peaks of 0:
\* its average is 1/5, not the sample.
C18_Witness ==
    /\ pc = "decide" /\ cfgFile = ExampleFile
    /\ recent = <<Zero, Zero, Zero, Zero, FromInt(1)>>
    /\ averagePeak = Norm(1, 5) /\ ~Loud

\* The positions of the main goroutine inside the for loop.
LoopPositions ==
    {"peak", "vol", "decide", "setReduce", "markReduced", "setRestore", "markNormal",
     "sleep", "backoff"}

\* C19 (Termination only by signal).  Until the signal goroutine exits, the
\* main goroutine, once in the loop, stays in the loop and always has a next
\* step, whatever device calls have failed; the process ends only by
\* os.Exit(0); the signal goroutine issues at most one restore; and once the
\* signal is received the process exits with code 0 whatever the loop does
\* and whether that restore succeeds or fails.
C19_TerminationOnlyBySignal ==
    /\ []((Started /\ hpc # "exited") => (pc \in LoopPositions /\ ENABLED MainLoop))
    /\ [](ExitCode \in {-1, 0} /\ Len(shutdownCmds) <= 1)
    /\ [](ExitCode = 0 => hpc = "exited")
    /\ (hpc \in {"check", "restore", "exit"} ~> ExitCode = 0)

\* The process has exited on a signal after a restore of the signal
\* goroutine that failed, while the loop was retrying a failed restore.
C19_Witness ==
    /\ ExitCode = 0 /\ pc = "setRestore" /\ retries = MaxRetries
    /\ shutdownCmds = <<[volume |-> originalVolume, ok |-> FALSE]>>

\* C20 (Alternation of volume commands).  A successful reduce of the loop
\* writes originalVolume / DivisionFactor and follows no command or a
\* restore; a successful restore writes originalVolume and follows a reduce;
\* and, outside the two assignments that follow a successful command within
\* its tick, isReducedVolume is true exactly when the loop's last successful
\* command is a reduce.
C20_Alternation ==
    [][ /\ (pc = "setReduce" /\ pc' = "markReduced") =>
              /\ lastCmd \in {"none", "restore"} /\ lastCmd' = "reduce"
              /\ IsQuotient(devVolume', originalVolume, config.DivisionFactor)
        /\ (pc = "setRestore" /\ pc' = "markNormal") =>
              /\ lastCmd = "reduce" /\ lastCmd' = "restore"
              /\ devVolume' = originalVolume
        /\ lastCmd' # lastCmd => pc \in {"setReduce", "setRestore"}
        /\ pc' \notin {"markReduced", "markNormal"} =>
              (isReducedVolume' <=> lastCmd' = "reduce") ]_vars

\* A second reduce has succeeded: an earlier one was marked after the clock
\* had advanced, and the loop has restored since.
C20_Witness ==
    /\ pc = "markReduced" /\ lastCmd = "reduce" /\ ~isReducedVolume
    /\ reducedAt > 0 /\ lastLoudTimestamp >= reducedAt

====
